---- MODULE Spec2Model ----
(***************************************************************************)
(* MondayReader (src/llama_hub/mondaydotcom/base.py, the second and        *)
(* current definition of the class, lines 101-226).                        *)
(*                                                                         *)
(* One invocation of load_data is modelled in two steps, split at the one  *)
(* blocking network call: Call runs load_data up to requests.post, and     *)
(* Receive runs it from response.json() to the return.  Python values:     *)
(*   - an optional value is a sequence: None is <<>>, a value v is <<v>>;  *)
(*   - a str is a TLA+ string, concatenated with \o;                       *)
(*   - a JSON object is a record; a key the object lacks is a field the    *)
(*     record lacks, so obj["k"] raises KeyError iff "k" \notin DOMAIN obj;*)
(*   - a function's result is [exc, val]: exc is "none" or the name of the *)
(*     exception it raised, val what it had computed by then.              *)
(***************************************************************************)
EXTENDS Integers, Sequences, FiniteSets, TLC

VARIABLES
    api_key,        \* self.api_key
    pc,             \* "idle", "waiting" (blocked in requests.post), "done"
    board_id,       \* load_data's argument board_id
    doc_id,         \* load_data's argument doc_id
    query,          \* _perform_request's local query, None while unbound
    requests_sent,  \* the HTTP POSTs this invocation has issued, in order
    json_response,  \* load_data's local json_response, None until received
    lines_arr,      \* load_data's local lines_arr (doc branch)
    outcome,        \* "none", "ok", or the exception load_data raised
    result          \* the list load_data returned; <<>> when it returned none

vars == <<api_key, pc, board_id, doc_id, query, requests_sent, json_response,
          lines_arr, outcome, result>>

None == <<>>

Some(v) == <<v>>

\* bool(x) for an int or None: None and 0 are falsy
TruthyInt(x) == x # None /\ x[1] # 0

\* bool(x) for a str or None: None and "" are falsy
TruthyStr(x) == x # None /\ x[1] # ""

Ok(v) == [exc |-> "none", val |-> v]

Raise(e, v) == [exc |-> e, val |-> v]

(***************************************************************************)
(* Bounds of the inputs.                                                   *)
(***************************************************************************)
\* most items of a board in a response
MaxItems == 2

\* most column values of a board response, over all its items
MaxCols == 2

\* most blocks of a doc in a response
MaxBlocks == 2

\* most delta operations of a doc response, over all its blocks
MaxOps == 2

ApiKeys == {"key1", "key2"}

api_url == "https://api.monday.com/v2"

BoardIdArgs == {None, Some(0), Some(7)}

DocIdArgs == {None, Some(0), Some(9)}

RECURSIVE SeqsOfLen(_, _)
SeqsOfLen(S, n) ==
    IF n = 0 THEN {<<>>}
    ELSE {<<x>> \o s : x \in S, s \in SeqsOfLen(S, n - 1)}

(***************************************************************************)
(* Board responses: what the server may answer to the boards query.        *)
(***************************************************************************)
\* column values: text null, text empty, two with text, one without "text"
Columns ==
    { [title |-> "A", text |-> None],
      [title |-> "B", text |-> Some("")],
      [title |-> "C", text |-> Some("x")],
      [title |-> "D", text |-> Some("y")],
      [title |-> "E"] }

ItemIds == {"i1", "i2"}

ItemsWith(c) ==
    { [id |-> i, name |-> "n", column_values |-> cs] :
        i \in ItemIds, cs \in SeqsOfLen(Columns, c) }

\* items that lack "id", or lack "column_values"
MalformedItems ==
    { [name |-> "n", column_values |-> <<>>],
      [id |-> "i1", name |-> "n"] }

RECURSIVE ItemLists(_, _)
ItemLists(k, c) ==
    {<<>>} \cup
    IF k = 0 THEN {}
    ELSE UNION { { <<it>> \o rest :
                     it \in ItemsWith(u), rest \in ItemLists(k - 1, c - u) } :
                 u \in 0..c }
         \cup { <<it>> \o rest :
                  it \in MalformedItems, rest \in ItemLists(k - 1, c) }

BoardResponses ==
    { [data |-> [boards |-> <<[name |-> "B", items |-> its]>>]] :
        its \in ItemLists(MaxItems, MaxCols) }
    \cup { [data |-> [boards |-> <<>>]],
           [data |-> [boards |-> <<[name |-> "B"]>>]] }

(***************************************************************************)
(* Doc responses: what the server may answer to the docs query.  A block's *)
(* content is JSON text; it is modelled by what json.loads makes of it:    *)
(* parses = FALSE is text json.loads rejects, otherwise value is the       *)
(* object it returns.                                                      *)
(***************************************************************************)
\* delta operations: plain, attributes without link, attributes with link,
\* and one without "insert"
Ops ==
    { [insert |-> "a"],
      [insert |-> "b", attributes |-> [bold |-> "true"]],
      [insert |-> "c", attributes |-> [link |-> "u"]],
      [attributes |-> [bold |-> "true"]] }

BlocksWith(c) ==
    { [id |-> "b", type |-> "t",
       content |-> [parses |-> TRUE, value |-> [deltaFormat |-> ops]]] :
        ops \in SeqsOfLen(Ops, c) }

\* blocks that lack "content", whose content is not JSON, or whose content
\* lacks "deltaFormat"
MalformedBlocks ==
    { [id |-> "b", type |-> "t"],
      [id |-> "b", type |-> "t", content |-> [parses |-> FALSE]],
      [id |-> "b", type |-> "t",
       content |-> [parses |-> TRUE, value |-> [alignment |-> "left"]]] }

RECURSIVE BlockLists(_, _)
BlockLists(k, c) ==
    {<<>>} \cup
    IF k = 0 THEN {}
    ELSE UNION { { <<bl>> \o rest :
                     bl \in BlocksWith(u), rest \in BlockLists(k - 1, c - u) } :
                 u \in 0..c }
         \cup { <<bl>> \o rest :
                  bl \in MalformedBlocks, rest \in BlockLists(k - 1, c) }

DocResponses ==
    { [data |-> [docs |-> <<[name |-> "D", object_id |-> 9, blocks |-> bls,
                            created_by |-> [id |-> "u1", name |-> "Al"]]>>]] :
        bls \in BlockLists(MaxBlocks, MaxOps) }
    \cup { [data |-> [docs |-> <<>>]],
           [data |-> [docs |-> <<[name |-> "D", object_id |-> 9,
                                  created_by |-> [id |-> "u1", name |-> "Al"]]>>]],
           [data |-> [docs |-> <<[object_id |-> 9, blocks |-> <<>>,
                                  created_by |-> [id |-> "u1", name |-> "Al"]]>>]],
           [data |-> [docs |-> <<[name |-> "D", object_id |-> 9, blocks |-> <<>>]>>]],
           [data |-> [docs |-> <<[name |-> "D", object_id |-> 9, blocks |-> <<>>,
                                  created_by |-> [id |-> "u1"]]>>]] }

\* error-bearing answers: no "data" at all, or "data" without the list asked for
ErrorResponses ==
    { [errors |-> "e", account_id |-> 1],
      [data |-> [complexity |-> "c"], errors |-> "e"] }

\* the server answers the query it was sent
ResponsesFor(q) ==
    ErrorResponses \cup
    IF q.shape = "boards" THEN BoardResponses ELSE DocResponses

(***************************************************************************)
(* The reader's functions.                                                 *)
(***************************************************************************)
Document(text, extra_info) == [text |-> text, extra_info |-> extra_info]

\* _parse_item_values: {"title": cv["title"], "value": cv["text"]}
parse_item_values(cv) ==
    IF "title" \notin DOMAIN cv THEN Raise("KeyError", None)
    ELSE IF "text" \notin DOMAIN cv THEN Raise("KeyError", None)
    ELSE Ok([title |-> cv.title, value |-> cv.text])

\* list(map(self._parse_item_values, list(item["column_values"])))
RECURSIVE MapParseItemValues(_)
MapParseItemValues(cvs) ==
    IF cvs = <<>> THEN Ok(<<>>)
    ELSE LET h == parse_item_values(Head(cvs)) IN
         IF h.exc # "none" THEN Raise(h.exc, <<>>)
         ELSE LET t == MapParseItemValues(Tail(cvs)) IN
              [exc |-> t.exc, val |-> <<h.val>> \o t.val]

\* _parse_data: {"id", "name", "values"} of one item
parse_data(item) ==
    IF "id" \notin DOMAIN item THEN Raise("KeyError", None)
    ELSE IF "name" \notin DOMAIN item THEN Raise("KeyError", None)
    ELSE IF "column_values" \notin DOMAIN item THEN Raise("KeyError", None)
    ELSE LET vs == MapParseItemValues(item.column_values) IN
         IF vs.exc # "none" THEN Raise(vs.exc, None)
         ELSE Ok([id |-> item.id, name |-> item.name, values |-> vs.val])

\* list(map(self._parse_data, list(items_array)))
RECURSIVE MapParseData(_)
MapParseData(items) ==
    IF items = <<>> THEN Ok(<<>>)
    ELSE LET h == parse_data(Head(items)) IN
         IF h.exc # "none" THEN Raise(h.exc, <<>>)
         ELSE LET t == MapParseData(Tail(items)) IN
              [exc |-> t.exc, val |-> <<h.val>> \o t.val]

\* AppendValue testing `is not None` where the code tests truth
AppendValue_NoneOnly(text, item_value) ==
    IF item_value.value # None
    THEN text \o ", " \o item_value.title \o ": " \o item_value.value[1]
    ELSE text

\* one pass of the inner loop: the text after item_value has been looked at
AppendValue(text, item_value) ==
    IF TruthyStr(item_value.value)
    THEN text \o ", " \o item_value.title \o ": " \o item_value.value[1]
    ELSE text

\* the inner loop over item["values"]
RECURSIVE AppendValues(_, _)
AppendValues(text, values) ==
    IF values = <<>> THEN text
    ELSE AppendValues(AppendValue(text, Head(values)), Tail(values))

\* the text of one parsed item: f"name: {item['name']}" and the inner loop
ItemText(item) == AppendValues("name: " \o item.name, item.values)

\* the Document appended for one parsed item
ItemDocument(item, bid) ==
    Document(ItemText(item), [board_id |-> bid, item_id |-> item.id])

\* BoardDocuments with the loop stopping one item early
BoardDocuments_OffByOne(parsed_items, bid) ==
    [i \in 1..(Len(parsed_items) - 1) |-> ItemDocument(parsed_items[i], bid)]

\* the outer loop: result after every parsed item has been appended
BoardDocuments(parsed_items, bid) ==
    [i \in 1..Len(parsed_items) |-> ItemDocument(parsed_items[i], bid)]

\* json_response["data"][key][0]
FirstOf(resp, key) ==
    IF "data" \notin DOMAIN resp THEN Raise("KeyError", None)
    ELSE IF key \notin DOMAIN resp.data THEN Raise("KeyError", None)
    ELSE IF resp.data[key] = <<>> THEN Raise("IndexError", None)
    ELSE Ok(resp.data[key][1])

\* the branch `if board_id:` of load_data
BoardBranch(resp, bid) ==
    LET data == FirstOf(resp, "boards") IN
    IF data.exc # "none" THEN Raise(data.exc, <<>>)
    ELSE IF "items" \notin DOMAIN data.val THEN Raise("KeyError", <<>>)
    ELSE LET parsed_items == MapParseData(data.val.items) IN
         IF parsed_items.exc # "none"
         THEN Raise(parsed_items.exc, BoardDocuments(parsed_items.val, bid))
         ELSE Ok(BoardDocuments(parsed_items.val, bid))

\* InsertText without the link branch
InsertText_NoUrl(insert) == insert.insert

\* the text one delta operation contributes: insert["insert"], and the link
InsertText(insert) ==
    IF "attributes" \in DOMAIN insert /\ "link" \in DOMAIN insert.attributes
    THEN insert.insert \o " url: " \o insert.attributes.link
    ELSE insert.insert

\* one pass of _read_block's loop: block_text after one operation
AppendInsert(block_text, insert) == block_text \o InsertText(insert) \o " \t"

\* _read_block's loop over deltaFormat_array
RECURSIVE ReadInserts(_, _)
ReadInserts(block_text, deltaFormat_array) ==
    IF deltaFormat_array = <<>> THEN Ok(block_text)
    ELSE IF "insert" \notin DOMAIN Head(deltaFormat_array)
         THEN Raise("KeyError", block_text)
         ELSE ReadInserts(AppendInsert(block_text, Head(deltaFormat_array)),
                          Tail(deltaFormat_array))

\* json.loads of a block's content
json_loads(content) ==
    IF content.parses THEN Ok(content.value) ELSE Raise("JSONDecodeError", None)

\* _read_block
read_block(block) ==
    IF "content" \notin DOMAIN block THEN Raise("KeyError", "")
    ELSE LET loaded == json_loads(block.content) IN
         IF loaded.exc # "none" THEN Raise(loaded.exc, "")
         ELSE IF "deltaFormat" \notin DOMAIN loaded.val THEN Raise("KeyError", "")
         ELSE ReadInserts("", loaded.val.deltaFormat)

\* list(map(self._read_block, blocks_array))
RECURSIVE MapReadBlock(_)
MapReadBlock(blocks_array) ==
    IF blocks_array = <<>> THEN Ok(<<>>)
    ELSE LET h == read_block(Head(blocks_array)) IN
         IF h.exc # "none" THEN Raise(h.exc, <<>>)
         ELSE LET t == MapReadBlock(Tail(blocks_array)) IN
              [exc |-> t.exc, val |-> <<h.val>> \o t.val]

\* sep.join(lines): the separator between consecutive lines only
RECURSIVE Join(_, _)
Join(sep, lines) ==
    IF lines = <<>> THEN ""
    ELSE IF Len(lines) = 1 THEN lines[1]
    ELSE lines[1] \o sep \o Join(sep, Tail(lines))

\* DocText joining with the bare newline
DocText_NewlineOnly(lines) == Join("\n", lines)

\* " \n".join(lines_arr)
DocText(lines) == Join(" \n", lines)

\* DocDocument making one Document per block
DocDocument_PerBlock(data, lines, did) ==
    IF "name" \notin DOMAIN data THEN Raise("KeyError", <<>>)
    ELSE IF "created_by" \notin DOMAIN data THEN Raise("KeyError", <<>>)
    ELSE IF "name" \notin DOMAIN data.created_by THEN Raise("KeyError", <<>>)
    ELSE Ok([i \in 1..Len(lines) |->
                Document(lines[i],
                         [doc_id |-> did, doc_name |-> data.name,
                          created_by |-> data.created_by.name])])

\* the doc's one Document and its extra_info
DocDocument(data, lines, did) ==
    IF "name" \notin DOMAIN data THEN Raise("KeyError", <<>>)
    ELSE IF "created_by" \notin DOMAIN data THEN Raise("KeyError", <<>>)
    ELSE IF "name" \notin DOMAIN data.created_by THEN Raise("KeyError", <<>>)
    ELSE Ok(<<Document(DocText(lines),
                       [doc_id |-> did, doc_name |-> data.name,
                        created_by |-> data.created_by.name])>>)

\* the branch `elif doc_id:` of load_data; lines is the local lines_arr
DocBranch(resp, did) ==
    LET data == FirstOf(resp, "docs") IN
    IF data.exc # "none" THEN [exc |-> data.exc, val |-> <<>>, lines |-> <<>>]
    ELSE IF "blocks" \notin DOMAIN data.val
         THEN [exc |-> "KeyError", val |-> <<>>, lines |-> <<>>]
    ELSE LET ls == MapReadBlock(data.val.blocks) IN
         IF ls.exc # "none" THEN [exc |-> ls.exc, val |-> <<>>, lines |-> <<>>]
         ELSE LET d == DocDocument(data.val, ls.val, did) IN
              [exc |-> d.exc, val |-> d.val, lines |-> ls.val]

\* load_data from the response on: the branch taken, by the arguments' truth
Interpret(resp, b, d) ==
    IF TruthyInt(b)
    THEN LET r == BoardBranch(resp, b[1]) IN
         [exc |-> r.exc, val |-> r.val, lines |-> <<>>]
    ELSE IF TruthyInt(d) THEN DocBranch(resp, d[1])
    ELSE [exc |-> "UnboundLocalError", val |-> <<>>, lines |-> <<>>]

\* Returned with the exception caught and what was built so far returned
Returned_Partial(r) ==
    [outcome |-> IF r.exc = "none" THEN "ok" ELSE r.exc, result |-> r.val]

\* how load_data ends: `return result`, or the exception leaves it (there is
\* no try/except) and nothing is returned
Returned(r) ==
    IF r.exc = "none" THEN [outcome |-> "ok", result |-> r.val]
    ELSE [outcome |-> r.exc, result |-> <<>>]

\* PreconditionHolds with the assert left out
PreconditionHolds_Unchecked(b, d) == TRUE

\* the assert at the head of load_data
PreconditionHolds(b, d) == b # None \/ d # None

BoardQuery(n) == [shape |-> "boards", id |-> n]

DocQuery(n) == [shape |-> "docs", id |-> n]

\* _perform_request's local query after the two ifs: None while unbound
BuildQuery(b, d) ==
    LET q1 == IF TruthyInt(b) THEN Some(BoardQuery(b[1])) ELSE None
    IN  IF TruthyInt(d) THEN Some(DocQuery(d[1])) ELSE q1

\* the arguments of requests.post
Request(key, q) ==
    [url |-> api_url, headers |-> [Authorization |-> key],
     json |-> [query |-> q]]

(***************************************************************************)
(* The state machine.                                                      *)
(***************************************************************************)
Init ==
    /\ api_key \in ApiKeys
    /\ pc = "idle"
    /\ board_id = None
    /\ doc_id = None
    /\ query = None
    /\ requests_sent = <<>>
    /\ json_response = None
    /\ lines_arr = <<>>
    /\ outcome = "none"
    /\ result = <<>>

\* load_data(b, d) up to requests.post: the assert, then _perform_request
\* builds the query and posts it
Call(b, d) ==
    /\ pc = "idle"
    /\ board_id' = b
    /\ doc_id' = d
    /\ IF ~PreconditionHolds(b, d)
       THEN /\ outcome' = "AssertionError"
            /\ pc' = "done"
            /\ UNCHANGED <<query, requests_sent>>
       ELSE /\ query' = BuildQuery(b, d)
            /\ IF BuildQuery(b, d) = None
               THEN /\ outcome' = "UnboundLocalError"
                    /\ pc' = "done"
                    /\ UNCHANGED requests_sent
               ELSE /\ requests_sent' =
                        Append(requests_sent,
                               Request(api_key, BuildQuery(b, d)[1]))
                    /\ pc' = "waiting"
                    /\ UNCHANGED outcome
    /\ UNCHANGED <<api_key, json_response, lines_arr, result>>

\* load_data from response.json() returning resp to its end
Continue(resp) ==
    LET r == Interpret(resp, board_id, doc_id) IN
    /\ json_response' = Some(resp)
    /\ lines_arr' = r.lines
    /\ outcome' = Returned(r).outcome
    /\ result' = Returned(r).result
    /\ pc' = "done"
    /\ UNCHANGED <<api_key, board_id, doc_id, query, requests_sent>>

\* the server answers the posted query; response.json() returns the answer
Receive ==
    /\ pc = "waiting"
    /\ \E resp \in ResponsesFor(requests_sent[Len(requests_sent)].json.query) :
           Continue(resp)

\* requests.post or response.json() raises: nothing catches it
TransportError ==
    /\ pc = "waiting"
    /\ outcome' = "RequestException"
    /\ pc' = "done"
    /\ UNCHANGED <<api_key, board_id, doc_id, query, requests_sent, json_response,
                   lines_arr, result>>

\* the caller has the outcome; the reader is ready for the next call
Return ==
    /\ pc = "done"
    /\ pc' = "idle"
    /\ board_id' = None
    /\ doc_id' = None
    /\ query' = None
    /\ requests_sent' = <<>>
    /\ json_response' = None
    /\ lines_arr' = <<>>
    /\ outcome' = "none"
    /\ result' = <<>>
    /\ UNCHANGED api_key

Next ==
    \/ \E b \in BoardIdArgs, d \in DocIdArgs : Call(b, d)
    \/ Receive
    \/ TransportError
    \/ Return

Spec == Init /\ [][Next]_vars

\* the identifiers other than 0: for them the assert and the ifs agree on
\* which identifiers were given
NonZeroBoardIdArgs == {b \in BoardIdArgs : b # Some(0)}

NonZeroDocIdArgs == {d \in DocIdArgs : d # Some(0)}

\* the reader called with non-zero identifiers only
NextNonZeroIds ==
    \/ \E b \in NonZeroBoardIdArgs, d \in NonZeroDocIdArgs : Call(b, d)
    \/ Receive
    \/ TransportError
    \/ Return

SpecNonZeroIds == Init /\ [][NextNonZeroIds]_vars

(***************************************************************************)
(* The claims.                                                             *)
(***************************************************************************)
Received == pc = "done" /\ json_response # None

\* the response has every field the board branch reads
WellFormedBoardResponse(r) ==
    /\ "data" \in DOMAIN r
    /\ "boards" \in DOMAIN r.data
    /\ r.data.boards # <<>>
    /\ "items" \in DOMAIN r.data.boards[1]
    /\ \A i \in 1..Len(r.data.boards[1].items) :
         LET it == r.data.boards[1].items[i] IN
         /\ {"id", "name", "column_values"} \subseteq DOMAIN it
         /\ \A j \in 1..Len(it.column_values) :
              {"title", "text"} \subseteq DOMAIN it.column_values[j]

\* the response has every field the doc branch reads
WellFormedDocResponse(r) ==
    /\ "data" \in DOMAIN r
    /\ "docs" \in DOMAIN r.data
    /\ r.data.docs # <<>>
    /\ LET doc == r.data.docs[1] IN
       /\ {"name", "blocks", "created_by"} \subseteq DOMAIN doc
       /\ "name" \in DOMAIN doc.created_by
       /\ \A i \in 1..Len(doc.blocks) :
            /\ "content" \in DOMAIN doc.blocks[i]
            /\ doc.blocks[i].content.parses
            /\ "deltaFormat" \in DOMAIN doc.blocks[i].content.value
            /\ \A j \in 1..Len(doc.blocks[i].content.value.deltaFormat) :
                 "insert" \in DOMAIN doc.blocks[i].content.value.deltaFormat[j]

ResponseItems == json_response[1].data.boards[1].items

ResponseDoc == json_response[1].data.docs[1]

ResponseOps(i) == ResponseDoc.blocks[i].content.value.deltaFormat

\* the texts of seq, each followed by term
RECURSIVE ConcatTerminated(_, _)
ConcatTerminated(seq, term) ==
    IF seq = <<>> THEN ""
    ELSE Head(seq) \o term \o ConcatTerminated(Tail(seq), term)

\* the texts of seq with sep between consecutive ones
RECURSIVE ConcatSeparated(_, _)
ConcatSeparated(seq, sep) ==
    IF seq = <<>> THEN ""
    ELSE IF Len(seq) = 1 THEN seq[1]
    ELSE Head(seq) \o sep \o ConcatSeparated(Tail(seq), sep)

\* C1: a call with both identifiers null, or both non-null, fails with the
\* precondition error and returns no Documents.
C1_ExactlyOneIdRequired ==
    (pc # "idle" /\ (board_id = None) = (doc_id = None)) =>
        /\ outcome = "AssertionError"
        /\ result = <<>>

\* C2: a call with neither identifier raises the precondition error before
\* any query is built and before any POST is issued.
C2_NeitherIdFailsBeforeRequest ==
    (pc # "idle" /\ board_id = None /\ doc_id = None) =>
        /\ pc = "done"
        /\ outcome = "AssertionError"
        /\ query = None
        /\ requests_sent = <<>>
        /\ json_response = None
        /\ result = <<>>

C2_Witness ==
    /\ pc = "done"
    /\ board_id = None
    /\ doc_id = None
    /\ outcome = "AssertionError"

\* C3: in board mode a response whose board has N items yields exactly N
\* Documents, the i-th for the i-th item, each with the requested board_id
\* and its item's id in its metadata.
C3_OneDocumentPerItem ==
    (Received /\ TruthyInt(board_id)
              /\ WellFormedBoardResponse(json_response[1])) =>
        /\ outcome = "ok"
        /\ Len(result) = Len(ResponseItems)
        /\ \A i \in 1..Len(ResponseItems) :
             /\ DOMAIN result[i].extra_info = {"board_id", "item_id"}
             /\ result[i].extra_info.board_id = board_id[1]
             /\ result[i].extra_info.item_id = ResponseItems[i].id

C3_Witness ==
    /\ Received
    /\ TruthyInt(board_id)
    /\ outcome = "ok"
    /\ Len(result) = 2
    /\ result[1].extra_info.item_id = "i2"
    /\ result[2].extra_info.item_id = "i1"

\* the columns of an item whose value is non-empty (neither null nor "")
NonEmptyColumns(item) ==
    SelectSeq(item.column_values,
              LAMBDA c : c.text # None /\ c.text # Some(""))

ColumnTexts(cols) ==
    [j \in 1..Len(cols) |-> ", " \o cols[j].title \o ": " \o cols[j].text[1]]

\* C4: each item's text is "name: <name>" followed by ", <title>: <value>"
\* for exactly its columns with a non-empty value, in their order.
C4_TextOfNonEmptyColumns ==
    (Received /\ TruthyInt(board_id) /\ outcome = "ok") =>
        \A i \in 1..Len(ResponseItems) :
            result[i].text =
                "name: " \o ResponseItems[i].name
                \o ConcatTerminated(
                       ColumnTexts(NonEmptyColumns(ResponseItems[i])), "")

C4_Witness ==
    /\ Received
    /\ TruthyInt(board_id)
    /\ outcome = "ok"
    /\ \E i \in 1..Len(ResponseItems) :
         /\ Len(ResponseItems[i].column_values) = 2
         /\ ResponseItems[i].column_values[1].text = Some("")
         /\ ResponseItems[i].column_values[2].text = Some("x")
         /\ result[i].text = "name: n, C: x"

\* what one delta operation contributes: its insert text, followed by
\* " url: <link>" when it carries a link attribute
Contribution(op) ==
    IF "attributes" \in DOMAIN op /\ "link" \in DOMAIN op.attributes
    THEN op.insert \o " url: " \o op.attributes.link
    ELSE op.insert

Contributions(ops) == [j \in 1..Len(ops) |-> Contribution(ops[j])]

InDocMode == Received /\ ~TruthyInt(board_id) /\ TruthyInt(doc_id)

\* C5 as stated: the Document's text is the blocks' texts joined by newline,
\* each block's text its operations' texts joined by tab, no tab after the
\* last.
C5_JoinedByTabAndNewline ==
    (InDocMode /\ outcome = "ok") =>
        result[1].text =
            ConcatSeparated(
                [i \in 1..Len(ResponseDoc.blocks) |->
                    ConcatSeparated(Contributions(ResponseOps(i)), "\t")],
                "\n")

\* C5 as amended: each block's text is its operations' texts, every one of
\* them (the last too) followed by a space and a tab, and the Document's text
\* is the blocks' texts with a space and a newline between consecutive blocks.
C5_TerminatedBySpaceTab ==
    (InDocMode /\ outcome = "ok") =>
        result[1].text =
            ConcatSeparated(
                [i \in 1..Len(ResponseDoc.blocks) |->
                    ConcatTerminated(Contributions(ResponseOps(i)), " \t")],
                " \n")

C5_Witness ==
    /\ InDocMode
    /\ outcome = "ok"
    /\ Len(ResponseDoc.blocks) = 2
    /\ result[1].text = "a \t \nc url: u \t"

\* C6: an operation with a link attribute contributes its insert text
\* immediately followed by " url: <link>"; one without attributes, or with
\* attributes without a link, contributes its insert text alone.
C6_LinkAppendsUrl ==
    (InDocMode /\ outcome = "ok") =>
        /\ Len(lines_arr) = Len(ResponseDoc.blocks)
        /\ \A i \in 1..Len(ResponseDoc.blocks) :
             lines_arr[i] =
                 ConcatTerminated(
                     [j \in 1..Len(ResponseOps(i)) |->
                         LET op == ResponseOps(i)[j] IN
                         CASE "attributes" \notin DOMAIN op -> op.insert
                           [] "link" \notin DOMAIN op.attributes -> op.insert
                           [] OTHER ->
                                op.insert \o " url: " \o op.attributes.link],
                     " \t")

C6_Witness ==
    /\ InDocMode
    /\ outcome = "ok"
    /\ Len(ResponseDoc.blocks) = 1
    /\ ResponseOps(1) = <<[insert |-> "c", attributes |-> [link |-> "u"]],
                          [insert |-> "b", attributes |-> [bold |-> "true"]]>>
    /\ lines_arr = <<"c url: u \tb \t">>

\* C7: in doc mode a successful call returns exactly one Document, whatever
\* the number of blocks, with doc_id, doc_name and created_by in its metadata.
C7_ExactlyOneDocument ==
    (InDocMode /\ outcome = "ok") =>
        /\ Len(result) = 1
        /\ DOMAIN result[1].extra_info = {"doc_id", "doc_name", "created_by"}
        /\ result[1].extra_info.doc_id = doc_id[1]
        /\ result[1].extra_info.doc_name = ResponseDoc.name
        /\ result[1].extra_info.created_by = ResponseDoc.created_by.name

C7_Witness ==
    /\ InDocMode
    /\ outcome = "ok"
    /\ ResponseDoc.blocks = <<>>
    /\ Len(result) = 1

\* the response lacks something the branch load_data takes will read
Malformed ==
    IF TruthyInt(board_id)
    THEN ~WellFormedBoardResponse(json_response[1])
    ELSE ~WellFormedDocResponse(json_response[1])

\* C8: a call succeeds or fails as a whole: on a malformed or error-bearing
\* response it raises, and a call that raises returns no Documents, never a
\* list built from the well-formed prefix.
C8_AllOrNothing ==
    /\ (pc = "done" /\ outcome # "ok") => result = <<>>
    /\ (Received /\ Malformed) => outcome \notin {"ok", "none"}
    /\ pc # "done" => result = <<>>

C8_Witness ==
    /\ Received
    /\ TruthyInt(board_id)
    /\ "data" \in DOMAIN json_response[1]
    /\ "boards" \in DOMAIN json_response[1].data
    /\ json_response[1].data.boards # <<>>
    /\ "items" \in DOMAIN json_response[1].data.boards[1]
    /\ Len(ResponseItems) = 2
    /\ WellFormedBoardResponse(
           [data |-> [boards |-> <<[items |-> <<ResponseItems[1]>>]>>]])
    /\ "id" \notin DOMAIN ResponseItems[2]
    /\ outcome = "KeyError"
    /\ result = <<>>

\* the branch load_data takes on the response
Branch == IF TruthyInt(board_id) THEN "boards" ELSE "docs"

\* C9: the query sent has the shape of the branch load_data then takes, and
\* with both identifiers non-null it is the board query for board_id.
C9_QueryMatchesBranch ==
    (pc # "idle" /\ requests_sent # <<>>) =>
        /\ query[1].shape = Branch
        /\ (board_id # None /\ doc_id # None) =>
               query[1] = [shape |-> "boards", id |-> board_id[1]]

\* C10: a call that passes the precondition issues exactly one POST, with the
\* API key in the Authorization header, whatever integer the identifier is,
\* and no Document is produced without it.
C10_ExactlyOnePost ==
    /\ (pc # "idle" /\ (board_id # None \/ doc_id # None)) =>
           /\ Len(requests_sent) = 1
           /\ requests_sent[1].headers.Authorization = api_key
    /\ result # <<>> => Len(requests_sent) = 1

====
